---- MODULE Spec2Model ----
(***************************************************************************)
(* Model of generating_heatmap.py: the batch driver (__main__), the        *)
(* per-archive procedure process_rar_file, the materializer                *)
(* extract_rar_file / find_h5_file and the nested cleanup helper           *)
(* cleanup_extracted_files.  The numeric stage is modelled by its control  *)
(* flow only (which loads, which renders, which saves, what can raise).    *)
(***************************************************************************)
EXTENDS Integers, Sequences, FiniteSets, TLC

\* ------------------------------------------------------------------ bounds
\* archives that may lie in the data directory
NumArchives == 2
\* how many entries of the hour list ['1h', ..., '24h'] are modelled: its
\* first NumHours entries
NumHours == 2
\* consecutive runs of the script over the same data and result directories
MaxRuns == 2
\* most directories in a tree handed to find_h5_file (the root included)
MaxDirs == 3

\* ------------------------------------------------------- program constants
max_retries == 5
\* retry_delay = 0.5 (seconds), in milliseconds
InitialRetryDelay == 500
\* length of the list ['1d', ..., '5d'] of the all-PNGs-exist test
NumDays == 5

None == "None"
Archives == 1..NumArchives
Platforms == {"win32", "posix"}
RequiredFiles == {"api_x.h5", "y.h5"}
FileNames == {"api_x.h5", "y.h5", "z.h5"}
NoDir == [exists |-> FALSE, files |-> {}]

VARIABLES
    platform,     \* sys.platform
    dataDir,      \* the input directory: [kind, rars]
    run,          \* which run of the script this is
    pc,           \* position of the single thread
    rar_files,    \* sorted(rar_files) of the current run
    idx,          \* position of the driver's for loop in rar_files
    successful,
    failed,
    exitCode,     \* the exit status: 0 or 1, and -1 while the script runs
    dirs,         \* extraction directory of each archive
    outputs,      \* image files on disk: pairs <<archive, bucket name>>
    calls,        \* process_rar_file invocations per archive in this run
    prevOk,       \* archives for which an earlier run returned True after writing
    loc,          \* locals and trace of the current process_rar_file call
                  \* (mechs: the mechanisms the extract_rar_file call in
                  \* progress has attempted, forgotten once its caller resumes)
    cl,           \* locals and trace of the current cleanup_extracted_files call
    walk          \* one call of find_h5_file on a directory tree, for the
                  \* study of the function alone: its arguments and result

vars == <<platform, dataDir, run, pc, rar_files, idx, successful, failed,
          exitCode, dirs, outputs, calls, prevOk, loc, cl, walk>>

\* --------------------------------------------------------- pure helpers

\* f'{rar_basename}_{hour}.png' for the hour list ['1h', ..., '24h']
HourName(i) == ToString(i) \o "h"
\* f'{rar_basename}_{day}.png' for the day list ['1d', ..., '5d']
DayName(i) == ToString(i) \o "d"

HourBuckets == [i \in 1..NumHours |-> HourName(i)]
DayBuckets == [i \in 1..NumDays |-> DayName(i)]

RECURSIVE Insert(_, _)
Insert(x, s) ==
    IF s = <<>> THEN <<x>>
    ELSE IF x <= Head(s) THEN <<x>> \o s
    ELSE <<Head(s)>> \o Insert(x, Tail(s))

\* mutant: the glob result is used in the order glob returned it
Unsorted(s) == s

RECURSIVE Sorted(_)
\* sorted(rar_files): archives are identified by the rank of their name
Sorted(s) == IF s = <<>> THEN <<>> ELSE Insert(Head(s), Sorted(Tail(s)))

\* the orders in which glob.glob may list a set of files
GlobOrders(S) ==
    {s \in [1..Cardinality(S) -> S] : \A i, j \in DOMAIN s : i # j => s[i] # s[j]}

\* find_h5_file: the name is found iff it occurs somewhere under the directory
find_h5_file(directory, filename) ==
    IF directory.exists /\ filename \in directory.files THEN filename ELSE None

\* the all-PNGs-exist test that opens process_rar_file
all_pngs_exist(a, out) ==
    \A i \in DOMAIN DayBuckets : <<a, DayBuckets[i]>> \in out

\* ------------------------------------------------------------ initial state

IdleLoc ==
    [arch |-> 0, api_x_path |-> None, y_path |-> None, ens_aifs |-> None,
     hour |-> 0, ret |-> "none", path |-> "none", extracts |-> 0,
     mechs |-> <<>>, xret |-> "none", exc |-> "none", loads |-> <<>>, rendered |-> {}, saved |-> {},
     cleanups |-> 0, log |-> {}]

IdleCl ==
    [attempt |-> 0, retry_delay |-> 0, tries |-> 0, sleeps |-> <<>>,
     forced |-> 0, removed |-> "no", state |-> "idle", last |-> "none"]

\* no call of find_h5_file under study
IdleWalk ==
    [exists |-> FALSE, dirs |-> {}, files |-> <<>>, filename |-> "none",
     state |-> "idle", found |-> FALSE, path |-> <<>>]

\* what the data directory may be when the script starts
DataDirs ==
    {[kind |-> "missing", rars |-> {}], [kind |-> "file", rars |-> {}]}
    \cup {[kind |-> "dir", rars |-> S] : S \in SUBSET Archives}

\* what the result directory may hold when the script starts: nothing, or the
\* day images 1d..5d of the first archive, left by an earlier per-day run
ResultDirs ==
    {{}, {<<1, DayBuckets[i]>> : i \in DOMAIN DayBuckets}}

Init ==
    /\ platform \in Platforms
    /\ dataDir \in DataDirs
    /\ run = 1
    /\ pc = "main"
    /\ rar_files = <<>>
    /\ idx = 0
    /\ successful = 0
    /\ failed = 0
    /\ exitCode = -1
    /\ dirs = [a \in Archives |-> NoDir]
    /\ outputs \in ResultDirs
    /\ calls = [a \in Archives |-> 0]
    /\ prevOk = {}
    /\ loc = IdleLoc
    /\ cl = IdleCl
    /\ walk = IdleWalk

\* ------------------------------------------------------------ batch driver

\* mutant: an empty glob result is not checked
InputRejectedUnlessEmpty(dd, files) ==
    \/ dd.kind = "missing"
    \/ dd.kind # "dir"

\* the three fatal checks of __main__: missing directory, not a directory,
\* no *.rar file
InputRejected(dd, files) ==
    \/ dd.kind = "missing"
    \/ dd.kind # "dir"
    \/ files = <<>>

\* __main__ up to the for loop: argument handling, the fatal checks, glob
Main ==
    /\ pc = "main"
    /\ \E order \in GlobOrders(dataDir.rars) :
          IF InputRejected(dataDir, order)
          THEN /\ exitCode' = 1
               /\ pc' = "exited"
               /\ UNCHANGED <<rar_files, idx, successful, failed>>
          ELSE /\ rar_files' = Sorted(order)
               /\ idx' = 1
               /\ successful' = 0
               /\ failed' = 0
               /\ pc' = "loop"
               /\ UNCHANGED exitCode
    /\ UNCHANGED <<platform, dataDir, run, dirs, outputs, calls, prevOk, loc, cl>>
    /\ UNCHANGED walk

\* one iteration of `for rar_path in sorted(rar_files)`: the call
CallProcess ==
    /\ pc = "loop"
    /\ idx <= Len(rar_files)
    /\ LET a == rar_files[idx] IN
          /\ loc' = [IdleLoc EXCEPT !.arch = a, !.ret = "pending"]
          /\ calls' = [calls EXCEPT ![a] = @ + 1]
    /\ pc' = "p_enter"
    /\ cl' = IdleCl
    /\ UNCHANGED <<platform, dataDir, run, rar_files, idx, successful, failed,
                   exitCode, dirs, outputs, prevOk>>
    /\ UNCHANGED walk

\* mutant: an exception caught by the loop is not counted
CountFailureNotRaise(n, outcome) == IF outcome = "False" THEN n + 1 ELSE n

\* mutant: a failed archive ends the batch
NextIndexAbortOnFailure(i, outcome) ==
    IF outcome = "True" THEN i + 1 ELSE Len(rar_files) + 1

\* where the for loop goes after an iteration, whatever its outcome
NextIndex(i, outcome) == i + 1

\* the counters after an iteration: True counts as a success, False and a
\* caught exception as a failure
CountSuccess(n, outcome) == IF outcome = "True" THEN n + 1 ELSE n
CountFailure(n, outcome) == IF outcome = "True" THEN n ELSE n + 1

\* process_rar_file hands control back to the loop body (2176-2182)
ProcessReturn ==
    /\ pc = "p_ret"
    /\ successful' = CountSuccess(successful, loc.ret)
    /\ failed' = CountFailure(failed, loc.ret)
    /\ idx' = NextIndex(idx, loc.ret)
    /\ prevOk' = IF loc.ret = "True" /\ loc.path = "success"
                 THEN prevOk \cup {loc.arch} ELSE prevOk
    /\ pc' = "loop"
    /\ loc' = IdleLoc
    /\ cl' = IdleCl
    /\ UNCHANGED <<platform, dataDir, run, rar_files, exitCode, dirs, outputs,
                   calls>>
    /\ UNCHANGED walk

\* mutant: the script exits with status 1 when an archive failed
ExitStatusCountsFailures(nfailed) == IF nfailed > 0 THEN 1 ELSE 0

\* the exit status once the loop is over: the script falls off its end, so
\* the status is 0 whatever the counters say
ExitStatus(nfailed) == 0

\* the summary printed after the loop; the script then ends normally
Summary ==
    /\ pc = "loop"
    /\ idx > Len(rar_files)
    /\ pc' = "done"
    /\ exitCode' = ExitStatus(failed)
    /\ UNCHANGED <<platform, dataDir, run, rar_files, idx, successful, failed,
                   dirs, outputs, calls, prevOk, loc, cl>>
    /\ UNCHANGED walk

\* the script is started again over the same data and result directories
Rerun ==
    /\ pc \in {"done", "exited"}
    /\ run < MaxRuns
    /\ run' = run + 1
    /\ pc' = "main"
    /\ rar_files' = <<>>
    /\ idx' = 0
    /\ successful' = 0
    /\ failed' = 0
    /\ exitCode' = -1
    /\ calls' = [a \in Archives |-> 0]
    /\ UNCHANGED <<platform, dataDir, dirs, outputs, prevOk, loc, cl>>
    /\ UNCHANGED walk

\* --------------------------------------------------------- process_rar_file

\* mutant: the all-PNGs-exist return cleans up like the other exits
ExitPcCleanupOnSkip(path) ==
    IF path = "enter_raise" THEN "p_ret" ELSE "c_begin"

\* mutant: the final cleanup of the success path is missing
ExitPcNoCleanupSuccess(path) ==
    IF path \in {"skip", "enter_raise", "success"} THEN "p_ret" ELSE "c_begin"

\* mutant: a dataset that cannot be loaded returns without cleaning up
ExitPcNoCleanupLoadError(path) ==
    IF path \in {"skip", "enter_raise", "load_error"} THEN "p_ret" ELSE "c_begin"

\* mutant: a failed savefig returns without cleaning up
ExitPcNoCleanupSaveError(path) ==
    IF path \in {"skip", "enter_raise", "save_error"} THEN "p_ret" ELSE "c_begin"

\* mutant: the files-not-found exit returns without cleaning up
ExitPcNoCleanupNotFound(path) ==
    IF path \in {"skip", "enter_raise", "not_found"} THEN "p_ret" ELSE "c_begin"

\* Which exits of process_rar_file call cleanup_extracted_files before they
\* return: all of them except the all-PNGs-exist return (122) and an
\* exception raised before the try block (109).
ExitPc(path) ==
    IF path \in {"skip", "enter_raise"} THEN "p_ret" ELSE "c_begin"

\* mutant: a handler that cleaned up is followed by the enclosing handler,
\* which cleans up again
ExitLocCleanupTwice(l, path, ret, msgs) ==
    [l EXCEPT !.path = path,
              !.ret = ret,
              !.log = @ \cup msgs,
              !.cleanups = IF ExitPc(path) # "c_begin" THEN @
                           ELSE IF path \in {"load_error", "save_error"}
                           THEN @ + 2 ELSE @ + 1]

\* the locals when process_rar_file leaves through `path` with result `ret`
ExitLoc(l, path, ret, msgs) ==
    [l EXCEPT !.path = path,
              !.ret = ret,
              !.log = @ \cup msgs,
              !.cleanups = IF ExitPc(path) = "c_begin" THEN @ + 1 ELSE @]

PUnchanged ==
    UNCHANGED <<platform, dataDir, run, rar_files, idx, successful, failed,
                exitCode, calls, prevOk, walk>>

\* lines 93-122: output subdirectory, then the all-PNGs-exist test
ProcessEnter ==
    /\ pc = "p_enter"
    /\ \E made \in BOOLEAN :
          IF ~made
          THEN \* os.makedirs(rar_output_dir) raises, outside any try
               /\ loc' = ExitLoc(loc, "enter_raise", "raise", {})
               /\ pc' = ExitPc("enter_raise")
          ELSE IF all_pngs_exist(loc.arch, outputs)
          THEN /\ loc' = ExitLoc(loc, "skip", "True", {"all_png_exist"})
               /\ pc' = ExitPc("skip")
          ELSE /\ pc' = "p_rar"
               /\ UNCHANGED loc
    /\ UNCHANGED <<dirs, outputs, cl>>
    /\ PUnchanged

\* lines 187-191: the archive must still be there
CheckRar ==
    /\ pc = "p_rar"
    /\ \E present \in BOOLEAN :
          IF ~present
          THEN /\ loc' = ExitLoc(loc, "rar_missing", "False", {"rar_not_found"})
               /\ pc' = ExitPc("rar_missing")
          ELSE /\ pc' = "p_find"
               /\ UNCHANGED loc
    /\ UNCHANGED <<dirs, outputs, cl>>
    /\ PUnchanged

\* mutant: the archive is extracted whatever the search found
RequiredMissingAlways(ax, y) == TRUE

\* mutant: only api_x.h5 is looked at
RequiredOnlyApiX(ax, y) == ax = None

\* mutant: `and` in place of `or`
RequiredBothMissing(ax, y) == ax = None /\ y = None

\* `if not api_x_path or not y_path`
RequiredMissing(ax, y) == ax = None \/ y = None

\* lines 193-199: look for the two required files, decide whether to extract
FindRequired ==
    /\ pc = "p_find"
    /\ LET d == dirs[loc.arch]
           ax == find_h5_file(d, "api_x.h5")
           y == find_h5_file(d, "y.h5")
       IN  /\ loc' = [loc EXCEPT !.api_x_path = ax,
                                 !.y_path = y,
                                 !.extracts = IF RequiredMissing(ax, y)
                                              THEN @ + 1 ELSE @]
           /\ pc' = IF RequiredMissing(ax, y) THEN "x_prepare" ELSE "p_load_x"
    /\ UNCHANGED <<dirs, outputs, cl>>
    /\ PUnchanged

\* --------------------------------------------------------- extract_rar_file

\* what an archive may hold, by file name: nothing, one required file, both
\* required files, or all three files
ArchiveContents ==
    {{}, {"api_x.h5"}, {"api_x.h5", "y.h5"}, FileNames}

\* winrar_paths: the install paths tried in order; 0 stands for "none exists"
WinrarPaths == 0..2

\* mutant: the platform test is dropped and unrar is the only fallback
NextMechanismUnrarOnly(plat, m) ==
    IF m = "rarfile" THEN "unrar" ELSE "none"

\* The mechanism tried after mechanism m has failed ("none": give up and
\* return False).  rarfile is followed by WinRAR on win32 and by unrar
\* elsewhere; neither of the two is followed by anything.
NextMechanism(plat, m) ==
    IF m = "rarfile"
    THEN (IF plat = "win32" THEN "winrar" ELSE "unrar")
    ELSE "none"

MechanismPc(m) ==
    CASE m = "rarfile" -> "x_rarfile"
      [] m = "winrar" -> "x_winrar"
      [] m = "unrar" -> "x_unrar"
      [] OTHER -> "x_failed"

\* lines 24-32: remove what is there (errors ignored), recreate the directory
ExtractPrepare ==
    /\ pc = "x_prepare"
    /\ LET d == dirs[loc.arch] IN
       \E removed \in BOOLEAN :
          /\ (~d.exists => removed)
          /\ dirs' = [dirs EXCEPT ![loc.arch] =
                        [exists |-> TRUE,
                         files |-> IF removed THEN {} ELSE d.files]]
    /\ pc' = MechanismPc("rarfile")
    /\ UNCHANGED <<loc, outputs, cl>>
    /\ PUnchanged

\* mutant: `return True` is missing, control falls to the next mechanism
ExtractedNoReturn(mech, content) ==
    /\ dirs' = [dirs EXCEPT ![loc.arch].files = @ \cup content]
    /\ loc' = [loc EXCEPT !.mechs = Append(@, mech), !.xret = "True"]
    /\ pc' = MechanismPc(NextMechanism(platform, mech))

\* a mechanism that completed: the archive's files are in the directory and
\* extract_rar_file returns True
Extracted(mech, content) ==
    /\ dirs' = [dirs EXCEPT ![loc.arch].files = @ \cup content]
    /\ loc' = [loc EXCEPT !.mechs = Append(@, mech), !.xret = "True"]
    /\ pc' = "p_refind"

\* a mechanism that failed: go on to the one that follows it, if any;
\* with none left extract_rar_file returns False
MechanismFailed(mech) ==
    LET next == NextMechanism(platform, mech) IN
    /\ loc' = [loc EXCEPT !.mechs = Append(@, mech),
                          !.xret = IF next = "none" THEN "False" ELSE @]
    /\ pc' = MechanismPc(next)
    /\ UNCHANGED dirs

\* lines 35-47: the rarfile library
TryRarfile ==
    /\ pc = "x_rarfile"
    /\ \E o \in {"ok", "ImportError", "Exception"} :
          IF o = "ok"
          THEN \E content \in ArchiveContents : Extracted("rarfile", content)
          ELSE MechanismFailed("rarfile")
    /\ UNCHANGED <<outputs, cl>>
    /\ PUnchanged

\* lines 50-76: WinRAR.exe from the first install path that exists
TryWinRAR ==
    /\ pc = "x_winrar"
    /\ \E winrar_exe \in WinrarPaths, o \in {"ok", "CalledProcessError", "OSError"} :
          IF winrar_exe # 0 /\ o = "ok"
          THEN \E content \in ArchiveContents : Extracted("winrar", content)
          ELSE MechanismFailed("winrar")
    /\ UNCHANGED <<outputs, cl>>
    /\ PUnchanged

\* lines 78-89: unrar from the search path; only CalledProcessError and
\* FileNotFoundError are caught here, any other error leaves
\* extract_rar_file as an exception and reaches the handler at 2107
TryUnrar ==
    /\ pc = "x_unrar"
    /\ \E o \in {"ok", "CalledProcessError", "FileNotFoundError", "OSError"} :
          CASE o = "ok" ->
                 \E content \in ArchiveContents : Extracted("unrar", content)
            [] o = "OSError" ->
                 /\ loc' = ExitLoc([loc EXCEPT !.mechs = Append(@, "unrar"),
                                               !.xret = "raise"],
                                   "exception", "False", {"error_processing"})
                 /\ pc' = ExitPc("exception")
                 /\ UNCHANGED dirs
            [] OTHER -> MechanismFailed("unrar")
    /\ UNCHANGED <<outputs, cl>>
    /\ PUnchanged

\* extract_rar_file returned False: lines 199-202
ExtractFailed ==
    /\ pc = "x_failed"
    /\ loc' = ExitLoc([loc EXCEPT !.mechs = <<>>], "extract_failed", "False",
                      {"extraction_error"})
    /\ pc' = ExitPc("extract_failed")
    /\ UNCHANGED <<dirs, outputs, cl>>
    /\ PUnchanged

\* lines 204-227: search again after the extraction
FindAfterExtract ==
    /\ pc = "p_refind"
    /\ LET d == dirs[loc.arch]
           ax == find_h5_file(d, "api_x.h5")
           y == find_h5_file(d, "y.h5")
           found == [loc EXCEPT !.api_x_path = ax, !.y_path = y, !.mechs = <<>>]
       IN  IF RequiredMissing(ax, y)
           THEN /\ loc' = ExitLoc(found, "not_found", "False", {"could_not_find"})
                /\ pc' = ExitPc("not_found")
           ELSE /\ loc' = found
                /\ pc' = "p_load_x"
    /\ UNCHANGED <<dirs, outputs, cl>>
    /\ PUnchanged

\* ------------------------------------------------- loading and the hour loop

\* how reading one HDF5 file can end: read, an OSError (missing, corrupt,
\* truncated), a ValueError (size 0, no dataset)
ReadOutcomes == {"ok", "OSError", "ValueError"}

\* lines 229-399: load api_x.h5, split it into the five sources
LoadApiX ==
    /\ pc = "p_load_x"
    /\ \E o \in ReadOutcomes \cup {"badshape"} :
          CASE o = "ok" ->
                 /\ loc' = [loc EXCEPT !.loads = Append(@, <<"api_x.h5", o>>)]
                 /\ pc' = "p_load_y"
            [] o = "badshape" ->
                 \* np.split / indexing raises: handler at 2107
                 /\ loc' = ExitLoc([loc EXCEPT !.loads = Append(@, <<"api_x.h5", o>>),
                                               !.exc = "ValueError"],
                                   "exception", "False", {"error_processing"})
                 /\ pc' = ExitPc("exception")
            [] OTHER ->
                 /\ loc' = ExitLoc([loc EXCEPT !.loads = Append(@, <<"api_x.h5", o>>)],
                                   "load_error", "False", {"error_loading"})
                 /\ pc' = ExitPc("load_error")
    /\ UNCHANGED <<dirs, outputs, cl>>
    /\ PUnchanged

\* lines 401-434: load y.h5
LoadY ==
    /\ pc = "p_load_y"
    /\ \E o \in ReadOutcomes :
          IF o = "ok"
          THEN /\ loc' = [loc EXCEPT !.loads = Append(@, <<"y.h5", o>>)]
               /\ pc' = "p_load_z"
          ELSE /\ loc' = ExitLoc([loc EXCEPT !.loads = Append(@, <<"y.h5", o>>)],
                                 "load_error", "False", {"error_loading"})
               /\ pc' = ExitPc("load_error")
    /\ UNCHANGED <<dirs, outputs, cl>>
    /\ PUnchanged

\* lines 436-477: the optional z.h5; every problem with it is only a warning
\* and leaves ens_aifs = None
LoadZ ==
    /\ pc = "p_load_z"
    /\ LET z_path == find_h5_file(dirs[loc.arch], "z.h5") IN
          IF z_path = None
          THEN loc' = [loc EXCEPT !.ens_aifs = None,
                                  !.loads = Append(@, <<"z.h5", "absent">>),
                                  !.log = @ \cup {"continuing_without_ens_aifs"}]
          ELSE \E o \in ReadOutcomes :
                  loc' = [loc EXCEPT
                            !.ens_aifs = IF o = "ok" THEN "array" ELSE None,
                            !.loads = Append(@, <<"z.h5", o>>),
                            !.log = IF o = "ok" THEN @
                                    ELSE @ \cup {"continuing_without_ens_aifs"}]
    /\ pc' = "p_slice"
    /\ UNCHANGED <<dirs, outputs, cl>>
    /\ PUnchanged

\* line 479: ens_aifs.squeeze(axis = -1), applied to whatever LoadZ left
Squeeze(ens_aifs) == IF ens_aifs = None THEN "AttributeError" ELSE "array"

\* lines 479-1978: squeeze ens_aifs, slice era5 and ens_aifs per hour
Slice ==
    /\ pc = "p_slice"
    /\ IF Squeeze(loc.ens_aifs) = "AttributeError"
       THEN /\ loc' = ExitLoc([loc EXCEPT !.exc = "AttributeError"],
                              "exception", "False", {"error_processing"})
            /\ pc' = ExitPc("exception")
       ELSE \E shapes_ok \in BOOLEAN :
               IF shapes_ok
               THEN /\ loc' = [loc EXCEPT !.hour = 1]
                    /\ pc' = "p_hours"
               ELSE /\ loc' = ExitLoc([loc EXCEPT !.exc = "IndexError"],
                                      "exception", "False", {"error_processing"})
                    /\ pc' = ExitPc("exception")
    /\ UNCHANGED <<dirs, outputs, cl>>
    /\ PUnchanged

\* mutant: the exists test before rendering is missing
HourImageNeverExists(a, h, out) == FALSE

\* `if os.path.exists(output_path)` for the hour at position h of the list
HourImageExists(a, h, out) == <<a, HourBuckets[h]>> \in out

\* lines 1980-2105: one pass of the hour loop, or its normal end
RenderHour ==
    /\ pc = "p_hours"
    /\ LET a == loc.arch
           h == loc.hour
       IN  IF h > Len(HourBuckets)
           THEN \* lines 2102-2105
                /\ loc' = ExitLoc(loc, "success", "True", {})
                /\ pc' = ExitPc("success")
                /\ UNCHANGED outputs
           ELSE IF HourImageExists(a, h, outputs)
           THEN /\ loc' = [loc EXCEPT !.hour = h + 1]
                /\ pc' = "p_hours"
                /\ UNCHANGED outputs
           ELSE \E o \in {"saved", "render_error", "save_error"} :
                   CASE o = "saved" ->
                          /\ outputs' = outputs \cup {<<a, HourBuckets[h]>>}
                          /\ loc' = [loc EXCEPT !.hour = h + 1,
                                                !.rendered = @ \cup {h},
                                                !.saved = @ \cup {h}]
                          /\ pc' = "p_hours"
                     [] o = "save_error" ->
                          \* lines 2084-2087
                          /\ loc' = ExitLoc([loc EXCEPT !.rendered = @ \cup {h}],
                                            "save_error", "False", {"error_saving"})
                          /\ pc' = ExitPc("save_error")
                          /\ UNCHANGED outputs
                     [] OTHER ->
                          \* lines 2097-2100
                          /\ loc' = ExitLoc(loc, "render_error", "False",
                                            {"error_heatmap"})
                          /\ pc' = ExitPc("render_error")
                          /\ UNCHANGED outputs
    /\ UNCHANGED <<dirs, cl>>
    /\ PUnchanged

\* --------------------------------------------------- cleanup_extracted_files

\* How one shutil.rmtree call can end.  On win32 it is given the onerror
\* handler remove_readonly, which swallows every error, so the call returns
\* normally whether or not the tree is gone ("swallowed": it is not).
RmtreeOutcomes(plat) ==
    IF plat = "win32"
    THEN {"removed", "swallowed"}
    ELSE {"removed", "PermissionError", "OSError"}

\* how the forced delete (rm -rf, rmdir /s /q) can end
ForcedOutcomes == {"removed", "remains", "raises"}

\* mutants: the retry test is off by one, either way
MayRetryOneLess(attempt) == attempt < max_retries - 2
MayRetryOneMore(attempt) == attempt < max_retries

\* `if attempt < max_retries - 1`
MayRetry(attempt) == attempt < max_retries - 1

\* mutant: the delay grows by a fixed step
BackoffLinear(delay) == delay + InitialRetryDelay

\* retry_delay *= 2
Backoff(delay) == delay * 2

\* mutant: every exception of the last attempt leads to the forced delete
UsesForcedDeleteAnyError(o) == o \in {"PermissionError", "OSError"}

\* only the `except PermissionError` handler holds the forced delete
UsesForcedDelete(o) == o = "PermissionError"

\* mutant: a cleanup that gave up turns the result into a failure
ReturnFalseOnWarning(ret, cleanup_state) ==
    IF cleanup_state = "warned" THEN "False" ELSE ret

\* the value process_rar_file returns once cleanup is over: the one decided
\* before cleanup was called, whatever cleanup achieved
ReturnAfterCleanup(ret, cleanup_state) == ret

\* lines 126-130: nothing to do when the directory is not there
CleanupBegin ==
    /\ pc = "c_begin"
    /\ IF ~dirs[loc.arch].exists
       THEN /\ cl' = [IdleCl EXCEPT !.state = "absent"]
            /\ loc' = [loc EXCEPT !.ret = ReturnAfterCleanup(@, "absent")]
            /\ pc' = "p_ret"
       ELSE /\ cl' = [IdleCl EXCEPT !.state = "running",
                                    !.retry_delay = InitialRetryDelay]
            /\ pc' = "c_attempt"
            /\ UNCHANGED loc
    /\ UNCHANGED <<dirs, outputs>>
    /\ PUnchanged

\* lines 132-184: one pass of `for attempt in range(max_retries)`
CleanupAttempt ==
    /\ pc = "c_attempt"
    /\ \E o \in RmtreeOutcomes(platform) :
       LET tried == [cl EXCEPT !.tries = @ + 1] IN
          CASE o \in {"removed", "swallowed"} ->
                 \* lines 148-149
                 /\ dirs' = IF o = "removed"
                            THEN [dirs EXCEPT ![loc.arch] = NoDir] ELSE dirs
                 /\ cl' = [tried EXCEPT !.state = "cleaned",
                                        !.removed = IF o = "removed"
                                                    THEN "rmtree" ELSE "no"]
                 /\ loc' = [loc EXCEPT !.ret = ReturnAfterCleanup(@, "cleaned")]
                 /\ pc' = "p_ret"
            [] o \in {"PermissionError", "OSError"} /\ MayRetry(cl.attempt) ->
                 \* lines 152-156 and 177-181
                 /\ cl' = [tried EXCEPT !.sleeps = Append(@, cl.retry_delay),
                                        !.retry_delay = Backoff(@),
                                        !.attempt = @ + 1]
                 /\ UNCHANGED <<dirs, loc, pc>>
            [] UsesForcedDelete(o) /\ ~MayRetry(cl.attempt) ->
                 \* lines 157-174
                 \E f \in ForcedOutcomes :
                    /\ dirs' = IF f = "removed"
                               THEN [dirs EXCEPT ![loc.arch] = NoDir] ELSE dirs
                    /\ cl' = [tried EXCEPT
                                !.forced = @ + 1,
                                !.last = o,
                                !.removed = IF f = "removed" THEN "forced"
                                            ELSE "no",
                                !.state = IF f = "removed" THEN "cleaned"
                                          ELSE "warned"]
                    /\ loc' = [loc EXCEPT
                                 !.ret = ReturnAfterCleanup(@,
                                            IF f = "removed" THEN "cleaned"
                                            ELSE "warned")]
                    /\ pc' = "p_ret"
            [] OTHER ->
                 \* lines 182-184
                 /\ cl' = [tried EXCEPT !.state = "warned", !.last = o]
                 /\ loc' = [loc EXCEPT !.ret = ReturnAfterCleanup(@, "warned")]
                 /\ pc' = "p_ret"
                 /\ UNCHANGED dirs
    /\ UNCHANGED outputs
    /\ PUnchanged

\* ------------------------------------------------------------ specification

Next ==
    \/ Main
    \/ CallProcess
    \/ ProcessReturn
    \/ Summary
    \/ Rerun
    \/ ProcessEnter
    \/ CheckRar
    \/ FindRequired
    \/ ExtractPrepare
    \/ TryRarfile
    \/ TryWinRAR
    \/ TryUnrar
    \/ ExtractFailed
    \/ FindAfterExtract
    \/ LoadApiX
    \/ LoadY
    \/ LoadZ
    \/ Slice
    \/ RenderHour
    \/ CleanupBegin
    \/ CleanupAttempt

Spec == Init /\ [][Next]_vars

\* One run of the script, from its start to its exit.  The script is one
\* synchronous thread with no suspension point: whenever a step is possible,
\* one is taken.
RunNext ==
    \/ Main
    \/ CallProcess
    \/ ProcessReturn
    \/ Summary
    \/ ProcessEnter
    \/ CheckRar
    \/ FindRequired
    \/ ExtractPrepare
    \/ TryRarfile
    \/ TryWinRAR
    \/ TryUnrar
    \/ ExtractFailed
    \/ FindAfterExtract
    \/ LoadApiX
    \/ LoadY
    \/ LoadZ
    \/ Slice
    \/ RenderHour
    \/ CleanupBegin
    \/ CleanupAttempt

FairSpec == Init /\ [][RunNext]_vars /\ WF_vars(RunNext)

\* ------------------------------------------------- find_h5_file on a tree

\* Names a subdirectory may have.  A directory is the sequence of names that
\* leads to it from the top; <<>> is the top.
SubNames == {"a", "b"}

\* the sets of directories a tree of at most n directories may consist of:
\* the top, and with every directory its parent
RECURSIVE DirSets(_)
DirSets(n) ==
    IF n <= 1 THEN {{<<>>}}
    ELSE LET smaller == DirSets(n - 1) IN
         smaller \cup
         UNION {{D \cup {Append(p, c)} : p \in D, c \in SubNames} : D \in smaller}

\* the calls studied: a directory that does not exist, or a tree whose
\* directories each hold some of the two required files, searched for one
\* of the two names
WalkInputs ==
    {[IdleWalk EXCEPT !.filename = n, !.state = "called"] : n \in RequiredFiles}
    \cup
    UNION {{[exists |-> TRUE, dirs |-> D, files |-> f, filename |-> n,
             state |-> "called", found |-> FALSE, path |-> <<>>] :
               f \in [D -> SUBSET RequiredFiles], n \in RequiredFiles} :
           D \in DirSets(MaxDirs)}

RECURSIVE os_walk(_, _, _)
RECURSIVE walk_each(_, _, _, _)

\* the walks of the subdirectories of `top` whose names are `names`, in order
walk_each(tree, top, names, scandir) ==
    IF names = <<>> THEN <<>>
    ELSE LET sub == Append(top, Head(names)) IN
         (IF sub \in tree.dirs THEN os_walk(tree, sub, scandir) ELSE <<>>)
         \o walk_each(tree, top, Tail(names), scandir)

\* mutant: os.walk(directory, topdown=False)
os_walk_bottomup(tree, top, scandir) ==
    walk_each(tree, top, scandir[top], scandir) \o <<top>>

\* os.walk(directory): the directories in the order they are yielded, a
\* directory before its subdirectories, these in the order scandir lists them
os_walk(tree, top, scandir) ==
    <<top>> \o walk_each(tree, top, scandir[top], scandir)

RECURSIVE first_match(_, _, _)
\* `if filename in files: return os.path.join(root, filename)`
first_match(visited, tree, filename) ==
    IF visited = <<>> THEN [found |-> FALSE, path |-> <<>>]
    ELSE IF filename \in tree.files[Head(visited)]
    THEN [found |-> TRUE, path |-> Append(Head(visited), filename)]
    ELSE first_match(Tail(visited), tree, filename)

\* find_h5_file on a tree: the path of the first match relative to
\* `directory`, or not found (None); os.walk of a directory that does not
\* exist yields nothing
find_h5_file_walk(tree, filename, scandir) ==
    IF ~tree.exists THEN [found |-> FALSE, path |-> <<>>]
    ELSE first_match(os_walk(tree, <<>>, scandir), tree, filename)

FindInit ==
    /\ platform = "posix"
    /\ dataDir = [kind |-> "missing", rars |-> {}]
    /\ run = 1
    /\ pc = "find_h5_file"
    /\ rar_files = <<>>
    /\ idx = 0
    /\ successful = 0
    /\ failed = 0
    /\ exitCode = -1
    /\ dirs = [a \in Archives |-> NoDir]
    /\ outputs = {}
    /\ calls = [a \in Archives |-> 0]
    /\ prevOk = {}
    /\ loc = IdleLoc
    /\ cl = IdleCl
    /\ walk \in WalkInputs

\* lines 11-16: the call; the order in which each directory lists its
\* subdirectories is the file system's choice
FindCall ==
    /\ pc = "find_h5_file"
    /\ walk.state = "called"
    /\ \E scandir \in [walk.dirs -> GlobOrders(SubNames)] :
          LET r == find_h5_file_walk(walk, walk.filename, scandir) IN
          walk' = [walk EXCEPT !.state = "returned",
                               !.found = r.found,
                               !.path = r.path]
    /\ UNCHANGED <<platform, dataDir, run, pc, rar_files, idx, successful,
                   failed, exitCode, dirs, outputs, calls, prevOk, loc, cl>>

FindNext == FindCall

FindSpec == FindInit /\ [][FindNext]_vars

\* ------------------------------------------------------------------ claims

InLoop == pc \notin {"main", "done", "exited"}
Returning == pc = "p_ret"
AllHourImages(a) == \A h \in DOMAIN HourBuckets : <<a, HourBuckets[h]>> \in outputs
Loaded(f, o) == \E i \in DOMAIN loc.loads : loc.loads[i] = <<f, o>>

\* C1: the driver calls process_rar_file exactly once for every archive of
\* the sorted list, whatever earlier archives returned or raised, and the
\* summary is eventually printed.
C1_EveryArchiveOnce ==
    /\ [](\A a \in Archives : calls[a] <= 1)
    /\ [](pc = "done" =>
            \A a \in Archives : calls[a] = (IF a \in dataDir.rars THEN 1 ELSE 0))
    /\ (InLoop ~> pc = "done")

\* an archive failed and the next one is processed to the end
C1_Witness ==
    /\ Returning
    /\ idx = 2
    /\ failed = 1
    /\ loc.path = "success"

\* C2 (as claimed): an archive that an earlier run processed successfully is
\* skipped by the next run: no extraction, no loading, no plotting.
C2_SecondRunSkips ==
    (run > 1 /\ loc.arch \in prevOk) =>
        /\ pc \in {"p_enter", "p_ret"}
        /\ loc.extracts = 0
        /\ loc.loads = <<>>
        /\ loc.rendered = {}

\* C3 (as claimed): when api_x.h5 and y.h5 load and have the documented
\* shapes and no image fails to render or save, process_rar_file returns True
\* with every hour image on disk, whatever happened to z.h5.
C3_SuccessWhateverZ ==
    (/\ Returning
     /\ Loaded("api_x.h5", "ok")
     /\ Loaded("y.h5", "ok")
     /\ loc.exc # "IndexError"
     /\ loc.path \notin {"render_error", "save_error"})
    => /\ loc.ret = "True"
       /\ AllHourImages(loc.arch)
       /\ (cl.removed # "no" => ~dirs[loc.arch].exists)

\* the external mechanism of the platform
PlatformTool == IF platform = "win32" THEN "winrar" ELSE "unrar"

IsPrefix(s, t) == Len(s) <= Len(t) /\ \A i \in DOMAIN s : s[i] = t[i]

\* C4 (as claimed): the three mechanisms are tried in the order rarfile,
\* WinRAR, unrar, and False is returned only after all three have failed.
C4_AllThreeBeforeFalse ==
    /\ IsPrefix(loc.mechs, <<"rarfile", "winrar", "unrar">>)
    /\ (pc = "x_failed" => loc.mechs = <<"rarfile", "winrar", "unrar">>)

\* C4 (amended): rarfile is tried first and, when it fails, the one external
\* mechanism of the platform (WinRAR on win32, unrar elsewhere); False is
\* returned only after both have been attempted and have failed, and the
\* other platform's mechanism is never attempted.
C4_TwoMechanismsByPlatform ==
    /\ IsPrefix(loc.mechs, <<"rarfile", PlatformTool>>)
    /\ (pc = "x_rarfile" => loc.mechs = <<>>)
    /\ (pc \in {"x_winrar", "x_unrar"} => loc.mechs = <<"rarfile">>)
    /\ (pc = "x_failed" <=> (loc.xret = "False" /\ loc.path = "none"))
    /\ (pc = "x_failed" => loc.mechs = <<"rarfile", PlatformTool>>)

C4_Witness ==
    /\ pc = "x_failed"
    /\ loc.xret = "False"
    /\ loc.mechs = <<"rarfile", "unrar">>

\* C5: when extraction reported success but api_x.h5 or y.h5 is not under the
\* extraction directory, process_rar_file logs the could-not-find diagnostic,
\* writes no image and returns False, and the driver counts one failure and
\* moves to the next archive.
C5_MissingAfterExtract ==
    /\ []((pc = "c_begin" /\ loc.xret = "True"
             /\ ~(RequiredFiles \subseteq dirs[loc.arch].files))
          => loc.path = "not_found")
    /\ []((Returning /\ loc.path = "not_found")
          => /\ "could_not_find" \in loc.log
             /\ loc.saved = {}
             /\ loc.rendered = {}
             /\ loc.ret = "False")
    /\ [][(Returning /\ loc.path = "not_found")
          => /\ failed' = failed + 1
             /\ successful' = successful
             /\ idx' = idx + 1
             /\ pc' = "loop"]_vars

C5_Witness ==
    /\ Returning
    /\ loc.path = "not_found"
    /\ loc.xret = "True"
    /\ idx < Len(rar_files)

PathsPastSkip ==
    {"rar_missing", "extract_failed", "not_found", "load_error", "save_error",
     "render_error", "exception", "success"}

\* C6: on every path past the all-PNGs-exist return, cleanup has been invoked
\* when process_rar_file returns, and when its deletion removed the directory
\* the directory does not exist at the return.
C6_CleanupOnEveryPath ==
    Returning =>
        /\ loc.path \in PathsPastSkip \cup {"skip", "enter_raise"}
        /\ (loc.path \in PathsPastSkip =>
               /\ loc.cleanups >= 1
               /\ cl.state \in {"absent", "cleaned", "warned"}
               /\ (cl.removed # "no" => ~dirs[loc.arch].exists))

C6_Witness ==
    /\ Returning
    /\ loc.path = "not_found"
    /\ cl.removed = "rmtree"
    /\ ~dirs[loc.arch].exists

\* C7: cleanup does not give up while fewer than max_retries attempts have
\* failed, and when attempt N+1 (N < 5) removes the directory after N failed
\* attempts it returns after exactly N+1 attempts and N sleeps, the directory
\* gone, no warning, no forced delete and no exception.
C7_RetryThenSuccess ==
    /\ ((cl.state = "warned" \/ cl.forced > 0) => cl.tries = max_retries)
    /\ (cl.removed = "rmtree" =>
           /\ Returning
           /\ cl.tries <= max_retries
           /\ Len(cl.sleeps) = cl.tries - 1
           /\ cl.state = "cleaned"
           /\ cl.forced = 0
           /\ ~dirs[loc.arch].exists
           /\ loc.ret \in {"True", "False"})

C7_Witness ==
    /\ cl.removed = "rmtree"
    /\ cl.tries = max_retries
    /\ Len(cl.sleeps) = max_retries - 1

\* C8: one call of cleanup makes at most max_retries attempts, and the call
\* always returns.
C8_BoundedCleanup ==
    /\ [](cl.tries <= max_retries)
    /\ (pc \in {"c_begin", "c_attempt"} ~> Returning)

C8_Witness ==
    /\ Returning
    /\ cl.tries = max_retries
    /\ cl.state = "warned"

\* the result each exit path decides before it calls cleanup
PlannedResult(path) == IF path \in {"success", "skip"} THEN "True" ELSE "False"

C10_FatalInput ==
    (dataDir.kind # "dir" \/ dataDir.rars = {}) =>
        /\ pc \in {"main", "exited"}
        /\ exitCode # 0
        /\ (pc = "exited" => exitCode = 1)
        /\ \A a \in Archives : calls[a] = 0 /\ ~dirs[a].exists
        /\ loc = IdleLoc

C10_Witness ==
    /\ pc = "exited"
    /\ exitCode = 1
    /\ dataDir.kind = "dir"
    /\ dataDir.rars = {}

\* C11: with a valid data directory holding at least one archive the run ends
\* with exit status 0 however many archives failed, all of them included;
\* failures show only in the Failed counter.
C11_ExitZeroDespiteFailures ==
    (dataDir.kind = "dir" /\ dataDir.rars # {}) =>
        /\ pc # "exited"
        /\ exitCode \in {-1, 0}
        /\ (pc = "done" => exitCode = 0)
        /\ (exitCode = -1 <=> pc # "done")

C11_Witness ==
    /\ pc = "done"
    /\ exitCode = 0
    /\ Len(rar_files) = NumArchives
    /\ failed = NumArchives
    /\ successful = 0

\* C12: after k archives successful + failed = k, at the end the sum is the
\* number of archives found; each True return adds one to successful only,
\* each False return and each caught exception adds one to failed only.
C12_SummaryCounters ==
    /\ [](InLoop => successful + failed = idx - 1)
    /\ [](pc = "done" => successful + failed = Cardinality(dataDir.rars))
    /\ [][Returning =>
            IF loc.ret = "True"
            THEN successful' = successful + 1 /\ failed' = failed
            ELSE successful' = successful /\ failed' = failed + 1]_vars
    /\ [](Returning => loc.ret \in {"True", "False", "raise"})

C12_Witness ==
    /\ pc = "done"
    /\ successful = 1
    /\ failed = 1

\* strictly ascending
Ascending(s) == \A i, j \in DOMAIN s : i < j => s[i] < s[j]
Processing == pc \notin {"main", "loop", "done", "exited"}

\* C13: archives are handled one at a time in ascending name order: while
\* archive i is handled every earlier archive of the list has been handled
\* and no later one has been touched; only the extraction directory of the
\* archive in hand changes; and a directory that cleanup removed is gone when
\* the loop moves on.
C13_OneAtATimeInOrder ==
    /\ [](InLoop => Ascending(rar_files))
    /\ [](Processing =>
            /\ idx \in DOMAIN rar_files
            /\ loc.arch = rar_files[idx]
            /\ \A j \in DOMAIN rar_files :
                  calls[rar_files[j]] = (IF j <= idx THEN 1 ELSE 0))
    /\ [][\A a \in Archives :
            dirs'[a] # dirs[a] => (Processing /\ a = loc.arch)]_vars
    /\ [][(Returning /\ cl.removed # "no") => ~dirs'[loc.arch].exists]_vars

C13_Witness ==
    /\ pc = "p_enter"
    /\ idx = 2
    /\ loc.arch = 2
    /\ ~dirs[1].exists
    /\ outputs # {}

HasRequired(d) == d.exists /\ RequiredFiles \subseteq d.files

\* C14: when the extraction directory already holds api_x.h5 and y.h5,
\* extract_rar_file is not called: it is entered only when a required file is
\* missing, and a call that went from the search straight to loading has left
\* the directory and its two files as they were found.
C14_ShortCircuit ==
    /\ pc = "x_prepare" => ~HasRequired(dirs[loc.arch])
    /\ (pc = "p_load_x" /\ loc.extracts = 0) =>
          /\ HasRequired(dirs[loc.arch])
          /\ loc.mechs = <<>>
          /\ loc.xret = "none"
          /\ loc.api_x_path = "api_x.h5"
          /\ loc.y_path = "y.h5"
    /\ (pc = "p_load_x" /\ loc.extracts = 1) => loc.xret = "True"
    /\ loc.extracts \in {0, 1}

C14_Witness ==
    /\ pc = "p_load_x"
    /\ loc.extracts = 0
    /\ HasRequired(dirs[loc.arch])

\* C15: however a mechanism fails, extract_rar_file ends by returning a
\* boolean: no exception leaves the function.
C15_FailureReturnsBoolean ==
    loc.xret \in {"none", "True", "False"}

\* C16: when the first mechanism is attempted the target directory exists and
\* is empty.
C16_EmptyTargetAtFirstMechanism ==
    pc = "x_rarfile" =>
        /\ dirs[loc.arch].exists
        /\ dirs[loc.arch].files = {}

\* C17: a True return means that the images the completion test looks for
\* and the images of every hour bucket are all in the archive's output
\* directory.
C17_TrueMeansComplete ==
    (Returning /\ loc.ret = "True") =>
        /\ all_pngs_exist(loc.arch, outputs)
        /\ AllHourImages(loc.arch)

InExtract == pc \in {"x_prepare", "x_rarfile", "x_winrar", "x_unrar", "x_failed"}
NoDuplicates(s) == \A i, j \in DOMAIN s : s[i] = s[j] => i = j

\* C18: in one call of extract_rar_file no mechanism is attempted twice, and
\* a mechanism that completes ends the call at once with True: the function
\* is never still among its mechanisms with a True result, and the mechanism
\* that completed is the last one attempted.
C18_AtMostOnceFirstSuccessReturns ==
    /\ NoDuplicates(loc.mechs)
    /\ Len(loc.mechs) <= 2
    /\ loc.extracts <= 1
    /\ InExtract => loc.xret \in {"none", "False"}
    /\ pc = "p_refind" =>
          /\ loc.xret = "True"
          /\ loc.mechs # <<>>
          /\ IsPrefix(loc.mechs, <<"rarfile", PlatformTool>>)
    /\ pc = "x_failed" => loc.xret = "False"

C18_Witness ==
    /\ pc = "p_refind"
    /\ loc.xret = "True"
    /\ Len(loc.mechs) = 2

LoadFailed(f) == Loaded(f, "OSError") \/ Loaded(f, "ValueError")

\* C19: when api_x.h5 or y.h5 cannot be loaded (missing, empty, unreadable,
\* no dataset) process_rar_file returns False, has written no image in that
\* call, has rendered nothing, and has called cleanup once before returning.
C19_LoadErrorRecoverable ==
    (loc.arch # 0 /\ (LoadFailed("api_x.h5") \/ LoadFailed("y.h5"))) =>
        /\ loc.path = "load_error"
        /\ loc.ret = "False"
        /\ loc.exc = "none"
        /\ loc.saved = {}
        /\ loc.rendered = {}
        /\ loc.cleanups = 1
        /\ "error_loading" \in loc.log
        /\ pc \in {"c_begin", "c_attempt", "p_ret"}
        /\ (Returning => cl.state # "idle")

C19_Witness ==
    /\ Returning
    /\ Loaded("api_x.h5", "ok")
    /\ LoadFailed("y.h5")
    /\ loc.ret = "False"

\* C20: when saving the image of bucket k fails, process_rar_file calls
\* cleanup and returns False; k is the last bucket rendered in the call, and
\* every image the call wrote for an earlier bucket is still on disk, as is
\* every image of an earlier bucket that was there before.
C20_SaveErrorRecoverable ==
    loc.path = "save_error" =>
        /\ loc.ret = "False"
        /\ loc.cleanups = 1
        /\ "error_saving" \in loc.log
        /\ pc \in {"c_begin", "c_attempt", "p_ret"}
        /\ (Returning => cl.state # "idle")
        /\ loc.hour \in loc.rendered
        /\ \A h \in loc.rendered : h <= loc.hour
        /\ loc.saved = loc.rendered \ {loc.hour}
        /\ \A h \in 1..(loc.hour - 1) : HourImageExists(loc.arch, h, outputs)
        /\ ~HourImageExists(loc.arch, loc.hour, outputs)

C20_Witness ==
    /\ Returning
    /\ loc.path = "save_error"
    /\ loc.hour = 2
    /\ loc.saved = {1}
    /\ <<loc.arch, HourBuckets[1]>> \in outputs

\* C21: an output image that exists is never written again: every image a
\* step writes was absent before the step, no step removes an image, and only
\* the hour loop adds one, for the hour it is at; so a later run writes only
\* the buckets that are missing.
C21_NoOverwrite ==
    /\ [][\A h \in loc'.saved \ loc.saved :
             /\ loc'.arch = loc.arch
             /\ h = loc.hour
             /\ <<loc.arch, HourBuckets[h]>> \notin outputs
             /\ outputs' = outputs \cup {<<loc.arch, HourBuckets[h]>>}]_vars
    /\ [][outputs \subseteq outputs']_vars
    /\ [][outputs' # outputs => (pc = "p_hours" /\ loc'.saved # loc.saved)]_vars

C21_Witness ==
    /\ run = 2
    /\ Returning
    /\ loc.path = "success"
    /\ loc.saved = {2}
    /\ AllHourImages(loc.arch)

\* C22: the sleeps of one cleanup call are 0.5 s, 1 s, 2 s, 4 s in that
\* order (in ms: 500 * 2^(i-1)), one after each failed attempt but the last,
\* so at most max_retries - 1 of them; each call starts again from 0.5 s.
C22_ExponentialBackoff ==
    /\ Len(cl.sleeps) <= max_retries - 1
    /\ \A i \in DOMAIN cl.sleeps : cl.sleeps[i] = InitialRetryDelay * 2^(i - 1)
    /\ Len(cl.sleeps) = cl.attempt
    /\ cl.state = "running" =>
          /\ cl.retry_delay = InitialRetryDelay * 2^cl.attempt
          /\ cl.tries = cl.attempt
    /\ cl.state \in {"cleaned", "warned"} => cl.tries = Len(cl.sleeps) + 1
    /\ pc = "c_begin" => cl = IdleCl

C22_Witness ==
    /\ cl.sleeps = <<500, 1000, 2000, 4000>>
    /\ cl.tries = max_retries
    /\ run = 2

Holders == {d \in walk.dirs : walk.filename \in walk.files[d]}
FilesAnywhere == UNION {walk.files[d] : d \in walk.dirs}

\* C23: find_h5_file finds the name iff a file of that name exists somewhere
\* in the tree, at any depth; the path returned ends in the name and its
\* directory is one of the tree that holds such a file; nothing is found in a
\* directory that does not exist; a file directly in the directory wins over
\* one further down.  The search by name alone used for the extraction
\* directories agrees with it on whether the file is found.
C23_FindCorrect ==
    walk.state = "returned" =>
        /\ walk.found <=> (walk.exists /\ Holders # {})
        /\ walk.found =>
              /\ walk.path # <<>>
              /\ walk.path[Len(walk.path)] = walk.filename
              /\ SubSeq(walk.path, 1, Len(walk.path) - 1) \in Holders
        /\ ~walk.found => walk.path = <<>>
        /\ (walk.exists /\ <<>> \in Holders) => walk.path = <<walk.filename>>
        /\ walk.found <=>
              find_h5_file([exists |-> walk.exists, files |-> FilesAnywhere],
                           walk.filename) # None

C23_Witness ==
    /\ walk.state = "returned"
    /\ walk.found
    /\ Len(walk.path) = 3
    /\ FilesAnywhere = RequiredFiles

\* C24: the all-PNGs-exist return gives True with no extraction, no load and
\* no cleanup, leaves the extraction directory alone, and the driver counts
\* it in successful, not in failed.
C24_SkipCountsAsSuccess ==
    /\ [](loc.path = "skip" =>
            /\ Returning
            /\ loc.ret = "True"
            /\ all_pngs_exist(loc.arch, outputs)
            /\ loc.extracts = 0
            /\ loc.loads = <<>>
            /\ loc.cleanups = 0
            /\ cl = IdleCl)
    /\ [][(Returning /\ loc.path = "skip") =>
            /\ successful' = successful + 1
            /\ failed' = failed
            /\ dirs' = dirs]_vars

C24_Witness ==
    /\ Returning
    /\ loc.path = "skip"
    /\ successful = 0
    /\ failed = 0

\* the search at 193-194 found both required files: nothing was extracted
Satisfied ==
    /\ loc.extracts = 0
    /\ loc.api_x_path # None
    /\ loc.y_path # None

\* C25: a directory that was already there with both required files is
\* handed to cleanup like a freshly extracted one: whichever way the call
\* ends after the search, cleanup has run once on it, and the directory is
\* gone unless its removal failed.
C25_CleanupOfPreexisting ==
    Satisfied =>
        /\ loc.path \notin {"skip", "enter_raise", "extract_failed", "not_found"}
        /\ Returning =>
              /\ loc.cleanups = 1
              /\ cl.state \in {"cleaned", "warned"}
              /\ cl.tries >= 1
              /\ cl.removed # "no" <=> ~dirs[loc.arch].exists

C25_Witness ==
    /\ Returning
    /\ Satisfied
    /\ loc.path = "success"
    /\ ~dirs[loc.arch].exists

\* C26: extraction is decided by api_x.h5 and y.h5 alone: extract_rar_file
\* is entered only with one of the two missing, loading without extraction
\* happens only with both present, and a directory with both but without
\* z.h5 is loaded as it is.
C26_ExtractionDecision ==
    LET d == dirs[loc.arch] IN
    /\ pc = "x_prepare" =>
          (~d.exists \/ "api_x.h5" \notin d.files \/ "y.h5" \notin d.files)
    /\ (pc \in {"p_load_x", "p_load_y", "p_load_z", "p_slice"} /\ loc.extracts = 0) =>
          (d.exists /\ {"api_x.h5", "y.h5"} \subseteq d.files)
    /\ (pc = "p_slice" /\ Loaded("z.h5", "absent")) =>
          /\ "z.h5" \notin d.files
          /\ loc.mechs = <<>>
          /\ loc.ens_aifs = None

C26_Witness ==
    /\ pc = "p_slice"
    /\ loc.extracts = 0
    /\ Loaded("z.h5", "absent")
    /\ dirs[loc.arch].files = RequiredFiles

\* C27: cleanup leaves through its success path only when the extraction
\* directory is gone, on every platform.
C27_SuccessMeansGone ==
    cl.state = "cleaned" => ~dirs[loc.arch].exists

\* C28: one call of process_rar_file calls cleanup at most once: cleanup
\* always starts from scratch, a cleanup in progress or over is the only one
\* of the call, and the all-PNGs-exist return calls none.
C28_CleanupAtMostOnce ==
    /\ loc.cleanups \in {0, 1}
    /\ pc = "c_begin" => (cl = IdleCl /\ loc.cleanups = 1)
    /\ cl # IdleCl => loc.cleanups = 1
    /\ cl.tries <= max_retries
    /\ loc.path = "skip" => (loc.cleanups = 0 /\ cl = IdleCl)
    /\ Returning => (loc.cleanups = 1 <=> cl.state \in {"absent", "cleaned", "warned"})

C28_Witness ==
    /\ Returning
    /\ loc.path = "save_error"
    /\ loc.cleanups = 1
    /\ cl.state = "cleaned"

\* C29: the forced delete runs at most once in a cleanup call and only when
\* the fifth rmtree attempt raised PermissionError; with the directory gone
\* after it cleanup ends as a success, otherwise with the warning; a fifth
\* attempt that raised anything else ends with the warning and no forced
\* delete.
C29_ForcedDelete ==
    /\ cl.forced \in {0, 1}
    /\ cl.forced = 1 =>
          /\ cl.last = "PermissionError"
          /\ cl.tries = max_retries
          /\ Len(cl.sleeps) = max_retries - 1
          /\ cl.state = (IF dirs[loc.arch].exists THEN "warned" ELSE "cleaned")
          /\ cl.removed = (IF dirs[loc.arch].exists THEN "no" ELSE "forced")
    /\ cl.last = "PermissionError" => cl.forced = 1
    /\ cl.last = "OSError" =>
          /\ cl.forced = 0
          /\ cl.tries = max_retries
          /\ cl.state = "warned"
          /\ dirs[loc.arch].exists
    /\ cl.state = "warned" => cl.last \in {"PermissionError", "OSError"}
    /\ platform = "win32" => cl.forced = 0

C29_Witness ==
    /\ Returning
    /\ cl.forced = 1
    /\ cl.state = "cleaned"
    /\ cl.removed = "forced"
    /\ ~dirs[loc.arch].exists

====
